---- MODULE Spec2Model ----
(***************************************************************************)
(* Model of ssh/sshr.go: the authentication bridge of the SSH reverse      *)
(* proxy (ProxyConn.AuthenticateProxyConn and the functions it drives),    *)
(* and the forwarder that follows it (ProxyConn.Wait, piping, Close).      *)
(*                                                                         *)
(* Packets are sequences of fields whose first field is the SSH message    *)
(* number.  A public key blob is <<type, id>>; a signature is a record     *)
(* naming the signing key and the exact data that was signed, so that      *)
(* Verify succeeds only for the key and the data the signature was made    *)
(* over.  Files are looked up in a fixed file system.                      *)
(***************************************************************************)
EXTENDS Naturals, Sequences, FiniteSets, TLC

\* ------------------------------------------------------------------------
\* Bounds
\* ------------------------------------------------------------------------

\* Banners the upstream may send before its final reply in one bridge step.
MaxBanners == 2

\* ------------------------------------------------------------------------
\* SSH message numbers and names
\* ------------------------------------------------------------------------

msgServiceRequest == 5
msgServiceAccept == 6
msgUserAuthRequest == 50
msgUserAuthFailure == 51
msgUserAuthSuccess == 52
msgUserAuthBanner == 53
msgUserAuthPubKeyOk == 60
msgChannelOpen == 90

serviceUserAuth == "ssh-userauth"
serviceSSH == "ssh-connection"

\* ------------------------------------------------------------------------
\* The world the bridge runs in
\* ------------------------------------------------------------------------

Users == {"alice", "bob", "carol"}

\* Session identifiers of the two transports (exchange hashes).
SidDown == "sid-down"
SidUp == "sid-up"
SessionIDs == {SidDown, SidUp}

\* Public key blobs <<type, id>>; the private half of a key has the same id.
K1 == <<"ssh-rsa", "K1">>
K2 == <<"ssh-ed25519", "K2">>
KBad == <<"bogus", "K3">>
KAlice == <<"ssh-rsa", "PA">>
KBob == <<"ssh-ed25519", "PB">>
KMaster == <<"ssh-rsa", "PM">>
KHook == <<"ssh-ed25519", "PH">>

KnownKeyTypes == {"ssh-rsa", "ssh-ed25519"}

\* File permission bits, written in octal digits: owner, group, other.
Mode0600 == (6 * 64) + (0 * 8) + 0
Mode0644 == (6 * 64) + (4 * 8) + 4

userAuthorizedKeysFile == "authorized_keys"
userPrivateKeyFile == "id_rsa"

GoodMasterKeyPath == <<"etc", "sshr", "master_key">>
MissingMasterKeyPath == <<"etc", "sshr", "no_such_key">>

userSpecFile(username, file) == <<"home", username, ".ssh", file>>

NoFile == [exists |-> FALSE, mode |-> 0, content |-> <<>>]

\* The file system: alice's files are private, bob's are group/world
\* readable, carol has none.  A file's content is a sequence of key entries.
FileAt(p) ==
    CASE p = userSpecFile("alice", userAuthorizedKeysFile) ->
            [exists |-> TRUE, mode |-> Mode0600, content |-> <<K1>>]
      [] p = userSpecFile("alice", userPrivateKeyFile) ->
            [exists |-> TRUE, mode |-> Mode0600, content |-> <<KAlice>>]
      [] p = userSpecFile("bob", userAuthorizedKeysFile) ->
            [exists |-> TRUE, mode |-> Mode0644, content |-> <<K2>>]
      [] p = userSpecFile("bob", userPrivateKeyFile) ->
            [exists |-> TRUE, mode |-> Mode0644, content |-> <<KBob>>]
      [] p = GoodMasterKeyPath ->
            [exists |-> TRUE, mode |-> Mode0600, content |-> <<KMaster>>]
      [] OTHER -> NoFile

\* ioutil.ReadFile: the bytes of the file, or an error when it cannot be
\* opened.  The mode of the file plays no part.
ReadFile(p) ==
    IF FileAt(p).exists
    THEN [err |-> FALSE, bytes |-> FileAt(p).content, files |-> {p}]
    ELSE [err |-> TRUE, bytes |-> <<>>, files |-> {}]

\* What a configured FetchAuthorizedKeysHook answers.
AuthorizedKeysHookAnswer(username) ==
    CASE username = "alice" -> [err |-> FALSE, bytes |-> <<K2, K1>>, files |-> {}]
      [] username = "bob" -> [err |-> FALSE, bytes |-> <<K2>>, files |-> {}]
      [] username = "carol" -> [err |-> FALSE, bytes |-> <<KBad, K1>>, files |-> {}]
      [] OTHER -> [err |-> TRUE, bytes |-> <<>>, files |-> {}]

\* What a configured FetchPrivateKeyHook answers; for a user it does not
\* know it returns an error, and bytes along with it.
PrivateKeyHookAnswer(username) ==
    CASE username = "alice" -> [err |-> FALSE, bytes |-> <<KHook>>, files |-> {}]
      [] username = "bob" -> [err |-> FALSE, bytes |-> <<KBad>>, files |-> {}]
      [] OTHER -> [err |-> TRUE, bytes |-> <<KHook>>, files |-> {}]

\* ------------------------------------------------------------------------
\* Library pieces the bridge calls (package ssh: messages.go, keys.go,
\* common.go, client_auth.go)
\* ------------------------------------------------------------------------

AcceptableAlgos == {"ssh-rsa", "ssh-ed25519"}

isAcceptableAlgo(algo) == algo \in AcceptableAlgos

\* Marshal of a userAuthRequestMsg: the message number, the three strings,
\* and then the payload fields ("rest").
MarshalUserAuthRequest(m) ==
    <<msgUserAuthRequest, m.User, m.Service, m.Method>> \o m.Payload

NoRequest == [User |-> "", Service |-> "", Method |-> "", Payload |-> <<>>]

\* Unmarshal into a userAuthRequestMsg: fails on a wrong message number or a
\* packet too short to hold the three strings.
UnmarshalUserAuthRequest(packet) ==
    IF packet[1] # msgUserAuthRequest \/ Len(packet) < 4
    THEN [err |-> TRUE, msg |-> NoRequest]
    ELSE [err |-> FALSE,
          msg |-> [User |-> packet[2], Service |-> packet[3],
                   Method |-> packet[4],
                   Payload |-> SubSeq(packet, 5, Len(packet))]]

ServiceRequestPacket == <<msgServiceRequest, serviceUserAuth>>
ServiceAcceptPacket == <<msgServiceAccept, serviceUserAuth>>
SuccessPacket == <<msgUserAuthSuccess>>
ChannelOpenPacket == <<msgChannelOpen, "session">>

\* Marshal of a userAuthFailureMsg (Methods, PartialSuccess).
MarshalFailure(methods) == <<msgUserAuthFailure, methods, FALSE>>

\* Marshal of a userAuthPubKeyOkMsg (Algo, PubKey).
MarshalPubKeyOk(algo, pubKey) == <<msgUserAuthPubKeyOk, algo, pubKey>>

\* Marshal of a userAuthBannerMsg (Message, Language).
MarshalBanner(text) == <<msgUserAuthBanner, text, "">>

\* parseString: one length-prefixed field off the front, or failure when
\* the input is exhausted.
parseString(in) ==
    IF Len(in) = 0
    THEN [ok |-> FALSE, rest |-> <<>>]
    ELSE [ok |-> TRUE, rest |-> Tail(in)]

NoKey == [type |-> "", id |-> ""]

\* ParsePublicKey: the key type is read from the blob itself.
ParsePublicKey(blob) ==
    IF blob[1] \in KnownKeyTypes
    THEN [err |-> FALSE, key |-> [type |-> blob[1], id |-> blob[2]]]
    ELSE [err |-> TRUE, key |-> NoKey]

KeyType(key) == key.type
KeyMarshal(key) == <<key.type, key.id>>

\* ParsePrivateKey: a Signer for the first key in the bytes.
ParsePrivateKey(bytes) ==
    IF Len(bytes) > 0 /\ bytes[1][1] \in KnownKeyTypes
    THEN [err |-> FALSE, signer |-> [type |-> bytes[1][1], id |-> bytes[1][2]]]
    ELSE [err |-> TRUE, signer |-> NoKey]

\* ParseAuthorizedKey: the first entry of the bytes and the rest.
ParseAuthorizedKey(in) ==
    [err |-> ParsePublicKey(Head(in)).err,
     key |-> ParsePublicKey(Head(in)).key,
     rest |-> Tail(in)]

\* The byte string an SSH publickey signature covers.
buildDataSignedForAuth(sessionID, req, algo, pubKey) ==
    <<sessionID, msgUserAuthRequest, req.User, req.Service, req.Method,
      1, algo, pubKey>>

\* A signature names its format, the key that made it and the data covered.
Sign(signer, data) ==
    [Format |-> signer.type, Blob |-> [signer |-> signer.id, data |-> data]]

NoSig == [Format |-> "", Blob |-> [signer |-> "", data |-> <<>>]]

\* PublicKey.Verify: TRUE exactly for a signature of this key's format made
\* by this key over this data.
Verify(publicKey, signedData, sig) ==
    /\ sig.Format = publicKey.type
    /\ sig.Blob.signer = publicKey.id
    /\ sig.Blob.data = signedData

\* ------------------------------------------------------------------------
\* ssh/sshr.go
\* ------------------------------------------------------------------------

\* userFile.checkPermission: an error when the file cannot be opened or has
\* a group/other permission bit set (Perm() & 0077, the low six bits).
checkPermission(file, user) ==
    IF ~FileAt(userSpecFile(user, file)).exists
    THEN TRUE
    ELSE FileAt(userSpecFile(user, file)).mode % 64 # 0

\* userFile.read
read(file, username) == ReadFile(userSpecFile(username, file))

fetchAuthorizedKeysFromHomeDir(username) ==
    read(userAuthorizedKeysFile, username)

fetchPrivateKeyFromHomeDir(username) ==
    read(userPrivateKeyFile, username)

\* fetchPrivateKey asking the hook before looking at UseMasterKey.
fetchPrivateKeyHookFirst(proxyConf, username) ==
    LET got == IF proxyConf.FetchPrivateKeyHook # "nil"
               THEN [r |-> PrivateKeyHookAnswer(username), source |-> "hook"]
               ELSE IF proxyConf.UseMasterKey
               THEN [r |-> ReadFile(proxyConf.MasterKeyPath), source |-> "master"]
               ELSE [r |-> fetchPrivateKeyFromHomeDir(username), source |-> "homedir"]
    IN  IF got.r.err THEN [got EXCEPT !.r.bytes = <<>>] ELSE got

\* fetchPrivateKey: master key, else home directory when no hook is set,
\* else the hook; on an error nil is returned for the bytes.  "source"
\* records which of the three was consulted.
fetchPrivateKey(proxyConf, username) ==
    LET got == IF proxyConf.UseMasterKey
               THEN [r |-> ReadFile(proxyConf.MasterKeyPath), source |-> "master"]
               ELSE IF proxyConf.FetchPrivateKeyHook = "nil"
               THEN [r |-> fetchPrivateKeyFromHomeDir(username), source |-> "homedir"]
               ELSE [r |-> PrivateKeyHookAnswer(username), source |-> "hook"]
    IN  IF got.r.err THEN [got EXCEPT !.r.bytes = <<>>] ELSE got

\* The call proxyConf.FetchAuthorizedKeysHook(username), after line 54-56
\* has put the home-directory reader in an empty slot.
FetchAuthorizedKeysHook(hook, username) ==
    IF hook = "hook"
    THEN AuthorizedKeysHookAnswer(username)
    ELSE fetchAuthorizedKeysFromHomeDir(username)

\* checkPublicKeyRegistration without the comparison of the marshaled keys.
checkPublicKeyRegistrationNoCompare(authKeys, publicKey) ==
    IF Len(authKeys) = 0
    THEN [ok |-> FALSE, err |-> FALSE]
    ELSE IF ParseAuthorizedKey(authKeys).err
    THEN [ok |-> FALSE, err |-> TRUE]
    ELSE [ok |-> TRUE, err |-> FALSE]

RECURSIVE checkPublicKeyRegistration(_, _)
checkPublicKeyRegistration(authKeys, publicKey) ==
    IF Len(authKeys) = 0
    THEN [ok |-> FALSE, err |-> FALSE]
    ELSE IF ParseAuthorizedKey(authKeys).err
    THEN [ok |-> FALSE, err |-> TRUE]
    ELSE IF KeyMarshal(ParseAuthorizedKey(authKeys).key) = KeyMarshal(publicKey)
    THEN [ok |-> TRUE, err |-> FALSE]
    ELSE checkPublicKeyRegistration(ParseAuthorizedKey(authKeys).rest, publicKey)

\* The "none" request built for the service of the user-auth protocol.
noneAuthMsgUserAuthService(user) ==
    [User |-> user, Service |-> serviceUserAuth, Method |-> "none", Payload |-> <<>>]

\* The "none" request built without its method.
noneAuthMsgNoMethod(user) ==
    [User |-> user, Service |-> serviceSSH, Method |-> "", Payload |-> <<>>]

noneAuthMsg(user) ==
    [User |-> user, Service |-> serviceSSH, Method |-> "none", Payload |-> <<>>]

\* The packet sendOKMsg writes downstream.
sendOKMsg(key) == MarshalPubKeyOk(KeyType(key), KeyMarshal(key))

\* sendFailureMsg without the append of the method.
sendFailureMsgNoMethod(method) == MarshalFailure(<<>>)

\* The packet sendFailureMsg writes downstream.
sendFailureMsg(method) == MarshalFailure(<<method>>)

\* parsePublicKeyMsg over the payload fields
\* has_sig, algo, pubkey blob, [signature].
parsePublicKeyMsg(userAuthReq) ==
    LET payload == userAuthReq.Payload
        bad == [err |-> TRUE, publicKey |-> NoKey, isQuery |-> FALSE, sig |-> NoSig]
    IN  IF userAuthReq.Method # "publickey" THEN bad
        ELSE IF Len(payload) < 1 THEN bad
        ELSE LET isQuery == payload[1] = 0
                 p1 == Tail(payload)
             IN  IF ~parseString(p1).ok THEN bad
                 ELSE IF ~isAcceptableAlgo(Head(p1)) THEN bad
                 ELSE LET p2 == parseString(p1).rest
                      IN  IF ~parseString(p2).ok THEN bad
                          ELSE IF ParsePublicKey(Head(p2)).err THEN bad
                          ELSE LET p3 == parseString(p2).rest
                                   key == ParsePublicKey(Head(p2)).key
                               IN  IF isQuery
                                   THEN [err |-> FALSE, publicKey |-> key,
                                         isQuery |-> TRUE, sig |-> NoSig]
                                   ELSE IF ~parseString(p3).ok
                                           \/ Len(parseString(p3).rest) > 0
                                   THEN bad
                                   ELSE [err |-> FALSE, publicKey |-> key,
                                         isQuery |-> FALSE, sig |-> Head(p3)]

\* VerifySignature taking the session ID of the upstream transport.
VerifySignatureUpstreamSession(msg, publicKey, sig) ==
    IF ~isAcceptableAlgo(sig.Format)
    THEN [ok |-> FALSE, err |-> TRUE]
    ELSE [ok |-> Verify(publicKey,
                        buildDataSignedForAuth(SidUp, msg,
                            KeyType(publicKey), KeyMarshal(publicKey)),
                        sig),
          err |-> FALSE]

\* ProxyConn.VerifySignature: over the downstream transport's session ID.
VerifySignature(msg, publicKey, sig) ==
    IF ~isAcceptableAlgo(sig.Format)
    THEN [ok |-> FALSE, err |-> TRUE]
    ELSE [ok |-> Verify(publicKey,
                        buildDataSignedForAuth(SidDown, msg,
                            KeyType(publicKey), KeyMarshal(publicKey)),
                        sig),
          err |-> FALSE]

\* ProxyConn.signAgain: a new publickey request signed by signer over the
\* upstream transport's session ID; signOK is whether signer.Sign succeeds.
signAgain(user, msg, signer, signOK) ==
    LET sessionID == SidUp
        upStreamPublicKeyData == KeyMarshal(signer)
        sign == Sign(signer,
                     buildDataSignedForAuth(sessionID,
                         [User |-> user, Service |-> serviceSSH,
                          Method |-> "publickey", Payload |-> <<>>],
                         KeyType(signer), upStreamPublicKeyData))
        publicKeyMsg == <<msgUserAuthRequest, user, serviceSSH, "publickey",
                          1, KeyType(signer), upStreamPublicKeyData, sign>>
    IN  IF ~signOK
        THEN [err |-> TRUE, msg |-> <<>>]
        ELSE IF UnmarshalUserAuthRequest(publicKeyMsg).err
        THEN [err |-> TRUE, msg |-> <<>>]
        ELSE [err |-> FALSE, msg |-> <<UnmarshalUserAuthRequest(publicKeyMsg).msg>>]

\* What one call of handleAuthMsg decided (bookkeeping for the properties):
\* which user's authorized keys were fetched and whether that failed,
\* whether the key was registered, whether the signature was checked and
\* verified, for which user and from where the private key was fetched and
\* what that returned, which files were read, and whether a re-signed
\* request was produced.
NoAttempt ==
    [parsed |-> FALSE, isQuery |-> FALSE, publicKey |-> NoKey,
     keysUser |-> "", keysErr |-> FALSE, registered |-> FALSE,
     sigChecked |-> FALSE, verified |-> FALSE,
     privUser |-> "", privSource |-> "", privErr |-> FALSE,
     privBytes |-> <<>>, privFiles |-> {},
     files |-> {}, resigned |-> FALSE]

\* Lines 54-56: an empty FetchAuthorizedKeysHook slot is filled with the
\* home-directory reader when a publickey request is handled.
hookAfter(msg, proxyConf) ==
    IF msg.Method = "publickey" /\ proxyConf.FetchAuthorizedKeysHook = "nil"
    THEN [proxyConf EXCEPT !.FetchAuthorizedKeysHook = "homedir"]
    ELSE proxyConf

\* Lines 124-125, reached by every break out of the switch: a failure naming
\* the attempted method goes downstream and nil is returned.
failed(msg, att) ==
    [msg |-> <<>>, down |-> <<sendFailureMsg(msg.Method)>>,
     panic |-> FALSE, att |-> att]

\* Case "publickey" of handleAuthMsg from line 70 on: a request with a
\* signature.
handleSignedPublicKey(msg, proxyConf, pUser, signOK, parsed) ==
    LET username == msg.User
        fail(att) == failed(msg, att)
        authKeys == FetchAuthorizedKeysHook(proxyConf.FetchAuthorizedKeysHook, username)
        a1 == [NoAttempt EXCEPT !.parsed = TRUE, !.publicKey = parsed.publicKey,
                                !.keysUser = username,
                                !.keysErr = authKeys.err,
                                !.files = authKeys.files]
        none(att) == [msg |-> <<noneAuthMsg(username)>>, down |-> <<>>,
                      panic |-> FALSE, att |-> att]
    IN  IF authKeys.err THEN none(a1)
        ELSE
        LET reg == checkPublicKeyRegistration(authKeys.bytes, parsed.publicKey)
        IN  IF reg.err \/ ~reg.ok THEN none(a1)
            ELSE
            LET ver == VerifySignature(msg, parsed.publicKey, parsed.sig)
                a2 == [a1 EXCEPT !.registered = TRUE, !.sigChecked = TRUE,
                                 !.verified = ver.ok /\ ~ver.err]
            IN  IF ver.err \/ ~ver.ok THEN fail(a2)
                ELSE
                LET priv == fetchPrivateKey(proxyConf, pUser)
                    a3 == [a2 EXCEPT !.privUser = pUser,
                                     !.privSource = priv.source,
                                     !.privErr = priv.r.err,
                                     !.privBytes = priv.r.bytes,
                                     !.privFiles = priv.r.files,
                                     !.files = a2.files \cup priv.r.files]
                IN  IF priv.r.err THEN fail(a3)
                    ELSE IF ParsePrivateKey(priv.r.bytes).err THEN fail(a3)
                    ELSE
                    LET again == signAgain(username, msg,
                                     ParsePrivateKey(priv.r.bytes).signer, signOK)
                    IN  IF again.err
                        THEN \* msg is nil now; line 124 dereferences it
                             [msg |-> <<>>, down |-> <<>>, panic |-> TRUE,
                              att |-> a3]
                        ELSE [msg |-> again.msg, down |-> <<>>,
                              panic |-> FALSE,
                              att |-> [a3 EXCEPT !.resigned = TRUE]]

\* handleAuthMsg whose default case falls out of the switch to line 124.
handleAuthMsgDefaultBreaks(msg, proxyConf, pUser, signOK) ==
    CASE msg.Method = "publickey" ->
           LET parsed == parsePublicKeyMsg(msg)
           IN  IF parsed.err THEN failed(msg, NoAttempt)
               ELSE IF parsed.isQuery
               THEN [msg |-> <<>>, down |-> <<sendOKMsg(parsed.publicKey)>>,
                     panic |-> FALSE,
                     att |-> [NoAttempt EXCEPT !.parsed = TRUE,
                                               !.isQuery = TRUE,
                                               !.publicKey = parsed.publicKey]]
               ELSE handleSignedPublicKey(msg, hookAfter(msg, proxyConf),
                                          pUser, signOK, parsed)
      [] msg.Method = "password" ->
           [msg |-> <<msg>>, down |-> <<>>, panic |-> FALSE, att |-> NoAttempt]
      [] OTHER -> failed(msg, NoAttempt)

\* ProxyConn.handleAuthMsg.  The result holds the returned message (<<>> for
\* nil), the packets written downstream, whether the call panicked, and the
\* bookkeeping record.
handleAuthMsg(msg, proxyConf, pUser, signOK) ==
    LET pass == [msg |-> <<msg>>, down |-> <<>>, panic |-> FALSE,
                 att |-> NoAttempt]
    IN  CASE msg.Method = "publickey" ->
               LET parsed == parsePublicKeyMsg(msg)
               IN  IF parsed.err THEN failed(msg, NoAttempt)
                   ELSE IF parsed.isQuery
                   THEN [msg |-> <<>>, down |-> <<sendOKMsg(parsed.publicKey)>>,
                         panic |-> FALSE,
                         att |-> [NoAttempt EXCEPT !.parsed = TRUE,
                                                   !.isQuery = TRUE,
                                                   !.publicKey = parsed.publicKey]]
                   ELSE handleSignedPublicKey(msg, hookAfter(msg, proxyConf),
                                              pUser, signOK, parsed)
          [] msg.Method = "password" -> pass
          [] OTHER -> pass

\* The switch returning true for a failure as well.
relayVerdictFailureSucceeds(msgType) ==
    CASE msgType = msgUserAuthSuccess -> "success"
      [] msgType = msgUserAuthBanner -> "continue"
      [] msgType = msgUserAuthFailure -> "success"
      [] OTHER -> "stop"

\* The switch returning true for a banner.
relayVerdictBannerSucceeds(msgType) ==
    CASE msgType = msgUserAuthSuccess -> "success"
      [] msgType = msgUserAuthBanner -> "success"
      [] msgType = msgUserAuthFailure -> "stop"
      [] OTHER -> "stop"

\* The switch without the banner case.
relayVerdictNoBannerCase(msgType) ==
    CASE msgType = msgUserAuthSuccess -> "success"
      [] OTHER -> "stop"

\* The switch of checkBridgeAuthWithNoBanner on the type of the packet just
\* relayed: "success" returns true, "continue" reads on, "stop" returns false.
relayVerdict(msgType) ==
    CASE msgType = msgUserAuthSuccess -> "success"
      [] msgType = msgUserAuthBanner -> "continue"
      [] msgType = msgUserAuthFailure -> "stop"
      [] OTHER -> "stop"

\* The type check of lines 361-365 left out.
isAuthRequestAny(packet) == TRUE

\* Lines 361-365: only a user-auth request may follow.
isAuthRequest(packet) == packet[1] = msgUserAuthRequest

\* ------------------------------------------------------------------------
\* What the two peers may send
\* ------------------------------------------------------------------------

ClientKeys == {K1, K2}

\* The signature a client holding blob's key makes for user u on the
\* transport whose session ID is sid.
ClientSig(signer, sid, u, blob) ==
    Sign([type |-> blob[1], id |-> signer[2]],
         buildDataSignedForAuth(sid,
             [User |-> u, Service |-> serviceSSH, Method |-> "publickey"],
             blob[1], blob))

OtherUser(u) == IF u = "alice" THEN "bob" ELSE "alice"
OtherKey(k) == IF k = K1 THEN K2 ELSE K1

\* Signatures a client may attach to a request of user u carrying blob: the
\* right one, and ones made over the upstream session ID, by another key,
\* for another user, or in a format that is not accepted.
ClientSigs(u, blob) ==
    { ClientSig(blob, SidDown, u, blob),
      ClientSig(blob, SidUp, u, blob),
      ClientSig(OtherKey(blob), SidDown, u, blob),
      ClientSig(blob, SidDown, OtherUser(u), blob),
      [ClientSig(blob, SidDown, u, blob) EXCEPT !.Format = "ssh-foo"] }

JunkField == ClientSig(K1, SidDown, "alice", K1)

\* Payloads of publickey requests of user u: queries, signed requests, and
\* payloads that are truncated or carry trailing fields.
PublicKeyPayloads(u) ==
    { <<0, a, b>> : a \in AcceptableAlgos, b \in ClientKeys }
    \cup { <<0, "ssh-foo", K1>>, <<0, "ssh-rsa", KBad>>,
           <<0, "ssh-rsa", K1, JunkField>> }
    \cup UNION { { <<1, b[1], b, sg>> : sg \in ClientSigs(u, b) } : b \in ClientKeys }
    \cup { <<1, a, b, ClientSig(b, SidDown, u, b)>> :
             a \in AcceptableAlgos \cup {"ssh-foo"}, b \in ClientKeys \cup {KBad} }
    \cup { <<>>, <<1>>, <<1, "ssh-rsa">>, <<1, "ssh-rsa", K1>>,
           <<1, "ssh-rsa", K1, ClientSig(K1, SidDown, u, K1), JunkField>> }

\* A later request may name any service (only the first request's service
\* is checked, by GetAuthRequestMsg): a publickey request of user u for
\* another service, with key K1 and a signature that is right for it.
OtherService == "other-service"

OtherServiceRequest(u) ==
    [User |-> u, Service |-> OtherService, Method |-> "publickey",
     Payload |-> <<1, K1[1], K1,
                   Sign([type |-> K1[1], id |-> K1[2]],
                        buildDataSignedForAuth(SidDown,
                            [User |-> u, Service |-> OtherService,
                             Method |-> "publickey"],
                            K1[1], K1))>>]

\* User-auth requests the downstream client may send.
Requests ==
    UNION { { [User |-> u, Service |-> serviceSSH, Method |-> "publickey",
               Payload |-> pl] : pl \in PublicKeyPayloads(u) } : u \in Users }
    \cup { [User |-> u, Service |-> serviceSSH, Method |-> m, Payload |-> <<>>] :
           u \in Users, m \in {"none", "keyboard-interactive"} }
    \cup { [User |-> u, Service |-> serviceSSH, Method |-> "password",
            Payload |-> <<0, "secret">>] : u \in Users }
    \cup { OtherServiceRequest(u) : u \in Users }

\* What the upstream server may answer in a bridge step.
UpstreamKinds == {"success", "failure", "banner1", "banner2", "other"}

UpstreamPacket(kind) ==
    CASE kind = "success" -> SuccessPacket
      [] kind = "failure" -> MarshalFailure(<<"publickey", "password">>)
      [] kind = "banner1" -> MarshalBanner("welcome")
      [] kind = "banner2" -> MarshalBanner("motd")
      [] OTHER -> ServiceAcceptPacket

Configs ==
    { [UseMasterKey |-> um, MasterKeyPath |-> mp,
       FetchAuthorizedKeysHook |-> ah, FetchPrivateKeyHook |-> ph] :
      um \in BOOLEAN, mp \in {GoodMasterKeyPath, MissingMasterKeyPath},
      ah \in {"nil", "hook"}, ph \in {"nil", "hook"} }

\* ------------------------------------------------------------------------
\* State
\* ------------------------------------------------------------------------

VARIABLES
    pc,          \* where AuthenticateProxyConn stands
    proxyConf,   \* the ProxyConfig
    User,        \* ProxyConn.User
    userAuthMsg, \* the loop's userAuthMsg: <<m>>, or <<>> for nil
    curReq,      \* the downstream request of this iteration, as received
    upWritten,   \* packets handed to Upstream.transport.writePacket
    upRead,      \* packets read from the upstream transport
    downWritten, \* packets handed to Downstream.transport.writePacket
    downRead,    \* the packet last read from downstream: <<p>>, or <<>>
    att,         \* what handleAuthMsg decided in this iteration
    ret,         \* "" while running, "nil" on success, else the error kind
    upClosed,    \* Upstream.transport has been closed
    downClosed,  \* Downstream.transport has been closed
    err,         \* the loop's err is non-nil (the last call made failed)
    errAt,       \* the position at which an error was returned, or ""
    wpc,         \* where Wait stands
    closeIdx,    \* how many transports Close has closed
    ppc,         \* where each of the two piping goroutines stands
    held,        \* the packet each piping has read and not yet written
    perr,        \* the error each piping returned, or ""
    c,           \* the buffer of Wait's channel c
    tRead,       \* per transport, the packets read from it during Wait
    tWritten,    \* per transport, the packets handed to its writePacket
    failOrder,   \* the pipings in the order in which they returned
    waitRet,     \* what Wait received from c: <<v>>, or <<>>
    peerClosed   \* the transports whose far side has gone away

\* the state of AuthenticateProxyConn
avars == <<pc, proxyConf, User, userAuthMsg, curReq, upWritten, upRead,
           downWritten, downRead, att, ret, err, errAt>>

\* the state of Wait and its goroutines
fvars == <<wpc, closeIdx, ppc, held, perr, c, tRead, tWritten, failOrder,
           waitRet, peerClosed>>

vars == <<avars, upClosed, downClosed, fvars>>

\* The two goroutines of Wait, in the order in which they are started.
Pipes == {1, 2}

Transports == {"up", "down"}

\* Wait has not been called: no goroutine exists, nothing is in flight.
ForwarderIdle ==
    /\ wpc = "call"
    /\ closeIdx = 0
    /\ ppc = [i \in Pipes |-> "unborn"]
    /\ held = [i \in Pipes |-> <<>>]
    /\ perr = [i \in Pipes |-> ""]
    /\ c = <<>>
    /\ tRead = [t \in Transports |-> <<>>]
    /\ tWritten = [t \in Transports |-> <<>>]
    /\ failOrder = <<>>
    /\ waitRet = <<>>
    /\ peerClosed = {}

\* The state when AuthenticateProxyConn is entered: both handshakes are
\* done, the first request has been read by GetAuthRequestMsg, which
\* accepted its service, and names the user the ProxyConn is bound to.
Init ==
    /\ pc = "start"
    /\ proxyConf \in Configs
    /\ proxyConf.UseMasterKey \/ proxyConf.MasterKeyPath = GoodMasterKeyPath
    /\ \E m \in Requests : /\ m.Service = serviceSSH
                           /\ userAuthMsg = <<m>>
                           /\ curReq = <<m>>
                           /\ User = m.User
    /\ upWritten = <<>>
    /\ upRead = <<>>
    /\ downWritten = <<>>
    /\ downRead = <<>>
    /\ att = NoAttempt
    /\ ret = ""
    /\ upClosed = FALSE
    /\ downClosed = FALSE
    /\ err = FALSE
    /\ errAt = ""
    /\ ForwarderIdle

\* return err out of AuthenticateProxyConn, at the current position
ReturnError(kind) ==
    /\ pc' = "error"
    /\ ret' = kind
    /\ errAt' = pc
    /\ err' = TRUE

\* carry on at position p; e is the value err now holds
Goto(p, e) ==
    /\ pc' = p
    /\ err' = e
    /\ UNCHANGED <<ret, errAt>>

\* connection.sendAuthReq and line 336: the service request goes upstream
\* and the accept is read and decoded; then the loop is entered.
SendAuthReq ==
    /\ pc = "start"
    /\ \E wok \in BOOLEAN, reply \in {"accept", "other", "readerr"} :
         IF ~wok \/ reply = "readerr"
         THEN /\ upWritten' = <<ServiceRequestPacket>>
              /\ upRead' = upRead
              /\ ReturnError("io")
         ELSE IF reply = "other"
         THEN /\ upWritten' = <<ServiceRequestPacket>>
              /\ upRead' = <<SuccessPacket>>
              /\ ReturnError("unmarshal")
         ELSE \* the loop starts with a clean record of its traffic
              /\ upWritten' = <<>>
              /\ upRead' = <<>>
              /\ Goto("handle", FALSE)
    /\ UNCHANGED <<proxyConf, User, userAuthMsg, curReq, downWritten,
                   downRead, att, upClosed, downClosed, fvars>>

\* Lines 338-343: handleAuthMsg on the current request; its error is only
\* printed.  dwok is whether the write to downstream (if any) succeeds.
HandleAuthMsg ==
    /\ pc = "handle"
    /\ \E signOK \in BOOLEAN, dwok \in BOOLEAN :
         LET r == handleAuthMsg(userAuthMsg[1], proxyConf, User, signOK)
         IN  /\ proxyConf' = hookAfter(userAuthMsg[1], proxyConf)
             /\ att' = r.att
             /\ downWritten' = downWritten \o r.down
             /\ userAuthMsg' = r.msg
             /\ Goto(IF r.panic THEN "panic"
                     ELSE IF r.msg # <<>> THEN "bridge" ELSE "next",
                     r.down # <<>> /\ ~dwok)
    /\ UNCHANGED <<User, curReq, upWritten, upRead, downRead,
                   upClosed, downClosed, fvars>>

\* Line 344 and line 300: the message is marshalled and written upstream.
BridgeWrite ==
    /\ pc = "bridge"
    /\ upWritten' = Append(upWritten, MarshalUserAuthRequest(userAuthMsg[1]))
    /\ \E wok \in BOOLEAN :
         IF wok THEN Goto("relay", FALSE) ELSE ReturnError("io")
    /\ UNCHANGED <<proxyConf, User, userAuthMsg, curReq, upRead, downWritten,
                   downRead, att, upClosed, downClosed, fvars>>

NumBanners(log) ==
    Cardinality({ i \in DOMAIN log : log[i][1] = msgUserAuthBanner })

\* One turn of the loop of checkBridgeAuthWithNoBanner: read a packet from
\* upstream, write it downstream, and decide on its type.
RelayStep ==
    /\ pc = "relay"
    /\ \/ /\ ReturnError("io")
          /\ UNCHANGED <<upRead, downWritten>>
       \/ \E kind \in UpstreamKinds, wok \in BOOLEAN :
            LET packet == UpstreamPacket(kind)
                msgType == packet[1]
            IN  /\ msgType = msgUserAuthBanner => NumBanners(upRead) < MaxBanners
                /\ upRead' = Append(upRead, packet)
                /\ downWritten' = Append(downWritten, packet)
                /\ IF ~wok
                   THEN ReturnError("io")
                   ELSE CASE relayVerdict(msgType) = "success" ->
                               /\ pc' = "done"
                               /\ ret' = "nil"
                               /\ err' = FALSE
                               /\ errAt' = errAt
                          [] relayVerdict(msgType) = "continue" ->
                               Goto("relay", FALSE)
                          [] OTHER ->
                               Goto("next", FALSE)
    /\ UNCHANGED <<proxyConf, User, userAuthMsg, curReq, upWritten, downRead,
                   att, upClosed, downClosed, fvars>>

\* Lines 353-374: read the next packet from downstream; it must be a
\* user-auth request and must decode.  The packets offered are the
\* requests a client may send, a truncated request and a CHANNEL_OPEN.
ReadNext ==
    /\ pc = "next"
    /\ \/ /\ ReturnError("io")
          /\ UNCHANGED <<userAuthMsg, curReq, upWritten, upRead, downWritten,
                         downRead, att>>
       \/ \E packet \in {ChannelOpenPacket, <<msgUserAuthRequest, "alice">>}
                        \cup { MarshalUserAuthRequest(m) : m \in Requests } :
            /\ downRead' = <<packet>>
            /\ IF ~isAuthRequest(packet)
               THEN /\ ReturnError("protocol")
                    /\ UNCHANGED <<userAuthMsg, curReq, upWritten, upRead,
                                   downWritten, att>>
               ELSE IF UnmarshalUserAuthRequest(packet).err
               THEN /\ ReturnError("unmarshal")
                    /\ UNCHANGED <<userAuthMsg, curReq, upWritten, upRead,
                                   downWritten, att>>
               ELSE \* the next iteration starts
                    /\ userAuthMsg' = <<UnmarshalUserAuthRequest(packet).msg>>
                    /\ curReq' = <<UnmarshalUserAuthRequest(packet).msg>>
                    /\ upWritten' = <<>>
                    /\ upRead' = <<>>
                    /\ downWritten' = <<>>
                    /\ att' = NoAttempt
                    /\ Goto("handle", FALSE)
    /\ UNCHANGED <<proxyConf, User, upClosed, downClosed, fvars>>

Next ==
    \/ SendAuthReq
    \/ HandleAuthMsg
    \/ BridgeWrite
    \/ RelayStep
    \/ ReadNext

Spec == Init /\ [][Next]_vars

\* ------------------------------------------------------------------------
\* ProxyConn.Wait: the two pipes
\* ------------------------------------------------------------------------

\* Packets each transport may deliver during Wait.
MaxForward == 2

\* An unbuffered channel.
ChanCapUnbuffered == 1 - 1

\* c := make(chan error, 1)
ChanCap == 1

\* What the peers send once authenticated: two packets that differ.
ForwardPackets == {ChannelOpenPacket, <<msgChannelOpen, "direct-tcpip">>}

\* Both goroutines writing to the downstream transport.
pipeDstAlwaysDownstream(i) == "down"

\* dst and src of the piping call of goroutine i:
\* piping(Upstream, Downstream) and piping(Downstream, Upstream).
pipeDst(i) == IF i = 1 THEN "up" ELSE "down"

pipeSrc(i) == IF i = 1 THEN "down" ELSE "up"

\* Close closing the upstream transport only.
CloseUpstreamOnly == <<"up">>

\* ProxyConn.Close: the transports it closes, in order.
Close == <<"up", "down">>

\* Transport t has been closed by Close.
ClosedHere(t) == (t = "up" /\ upClosed) \/ (t = "down" /\ downClosed)

\* Reads and writes on t fail: it was closed here or its peer is gone.
Gone(t) == ClosedHere(t) \/ t \in peerClosed

\* The state in which Wait is called: AuthenticateProxyConn has returned nil
\* after a password request that upstream accepted.
WaitInit ==
    /\ pc = "done"
    /\ ret = "nil"
    /\ proxyConf = [UseMasterKey |-> FALSE, MasterKeyPath |-> GoodMasterKeyPath,
                    FetchAuthorizedKeysHook |-> "nil",
                    FetchPrivateKeyHook |-> "nil"]
    /\ User = "alice"
    /\ userAuthMsg = << [User |-> "alice", Service |-> serviceSSH,
                         Method |-> "password", Payload |-> <<0, "secret">>] >>
    /\ curReq = userAuthMsg
    /\ upWritten = << MarshalUserAuthRequest(userAuthMsg[1]) >>
    /\ upRead = <<SuccessPacket>>
    /\ downWritten = <<SuccessPacket>>
    /\ downRead = <<>>
    /\ att = NoAttempt
    /\ err = FALSE
    /\ errAt = ""
    /\ upClosed = FALSE
    /\ downClosed = FALSE
    /\ ForwarderIdle

\* Lines 280-290: the channel is made and both goroutines are started.
WaitStart ==
    /\ wpc = "call"
    /\ wpc' = "recv"
    /\ ppc' = [i \in Pipes |-> "read"]
    /\ UNCHANGED <<avars, upClosed, downClosed, closeIdx, held, perr, c, tRead,
                   tWritten, failOrder, waitRet, peerClosed>>

\* piping of goroutine i returns the error kind.
pipingReturn(i, kind) ==
    /\ perr' = [perr EXCEPT ![i] = kind]
    /\ ppc' = [ppc EXCEPT ![i] = "send"]
    /\ failOrder' = Append(failOrder, i)

\* Line 421: src.readPacket delivers a packet.
PipeReadPacket(i) ==
    /\ ppc[i] = "read"
    /\ ~Gone(pipeSrc(i))
    /\ Len(tRead[pipeSrc(i)]) < MaxForward
    /\ \E p \in ForwardPackets :
         /\ tRead' = [tRead EXCEPT ![pipeSrc(i)] = Append(@, p)]
         /\ held' = [held EXCEPT ![i] = <<p>>]
    /\ ppc' = [ppc EXCEPT ![i] = "write"]
    /\ UNCHANGED <<avars, upClosed, downClosed, wpc, closeIdx, perr, c,
                   tWritten, failOrder, waitRet, peerClosed>>

\* Lines 421-424: src.readPacket fails on a transport that is still open.
PipeReadFail(i) ==
    /\ ppc[i] = "read"
    /\ ~Gone(pipeSrc(i))
    /\ pipingReturn(i, "read")
    /\ UNCHANGED <<avars, upClosed, downClosed, wpc, closeIdx, held, c, tRead,
                   tWritten, waitRet, peerClosed>>

\* Lines 421-424: src.readPacket fails because the transport is gone.
PipeReadClosed(i) ==
    /\ ppc[i] = "read"
    /\ Gone(pipeSrc(i))
    /\ pipingReturn(i, IF ClosedHere(pipeSrc(i)) THEN "closed" ELSE "gone")
    /\ UNCHANGED <<avars, upClosed, downClosed, wpc, closeIdx, held, c, tRead,
                   tWritten, waitRet, peerClosed>>

\* Line 426: dst.writePacket(p) succeeds; the loop reads again.
PipeWritePacket(i) ==
    /\ ppc[i] = "write"
    /\ ~Gone(pipeDst(i))
    /\ tWritten' = [tWritten EXCEPT ![pipeDst(i)] = Append(@, held[i][1])]
    /\ held' = [held EXCEPT ![i] = <<>>]
    /\ ppc' = [ppc EXCEPT ![i] = "read"]
    /\ UNCHANGED <<avars, upClosed, downClosed, wpc, closeIdx, perr, c, tRead,
                   failOrder, waitRet, peerClosed>>

\* Lines 426-428: dst.writePacket(p) fails on a transport that is still open.
PipeWriteFail(i) ==
    /\ ppc[i] = "write"
    /\ ~Gone(pipeDst(i))
    /\ tWritten' = [tWritten EXCEPT ![pipeDst(i)] = Append(@, held[i][1])]
    /\ pipingReturn(i, "write")
    /\ UNCHANGED <<avars, upClosed, downClosed, wpc, closeIdx, held, c, tRead,
                   waitRet, peerClosed>>

\* Lines 426-428: dst.writePacket(p) fails because the transport is gone.
PipeWriteClosed(i) ==
    /\ ppc[i] = "write"
    /\ Gone(pipeDst(i))
    /\ tWritten' = [tWritten EXCEPT ![pipeDst(i)] = Append(@, held[i][1])]
    /\ pipingReturn(i, IF ClosedHere(pipeDst(i)) THEN "closed" ELSE "gone")
    /\ UNCHANGED <<avars, upClosed, downClosed, wpc, closeIdx, held, c, tRead,
                   waitRet, peerClosed>>

\* Lines 283 and 287: c <- (the error piping returned).  The send goes
\* through when the buffer has room or Wait stands at the receive.
PipeSend(i) ==
    /\ ppc[i] = "send"
    /\ Len(c) < ChanCap \/ (wpc = "recv" /\ c = <<>>)
    /\ c' = Append(c, [pipe |-> i, err |-> perr[i]])
    /\ ppc' = [ppc EXCEPT ![i] = "done"]
    /\ UNCHANGED <<avars, upClosed, downClosed, wpc, closeIdx, held, perr,
                   tRead, tWritten, failOrder, waitRet, peerClosed>>

\* Line 291: <-c; the value received is what Wait will return.
WaitRecv ==
    /\ wpc = "recv"
    /\ c # <<>>
    /\ waitRet' = <<Head(c)>>
    /\ c' = Tail(c)
    /\ wpc' = "close"
    /\ UNCHANGED <<avars, upClosed, downClosed, closeIdx, ppc, held, perr,
                   tRead, tWritten, failOrder, peerClosed>>

\* Line 290 and lines 294-297: the deferred Close closes its transports one
\* after the other.
CloseTransport ==
    /\ wpc = "close"
    /\ closeIdx < Len(Close)
    /\ closeIdx' = closeIdx + 1
    /\ upClosed' = (upClosed \/ Close[closeIdx + 1] = "up")
    /\ downClosed' = (downClosed \/ Close[closeIdx + 1] = "down")
    /\ UNCHANGED <<avars, wpc, ppc, held, perr, c, tRead, tWritten, failOrder,
                   waitRet, peerClosed>>

\* Wait returns once Close is through.
WaitReturn ==
    /\ wpc = "close"
    /\ closeIdx = Len(Close)
    /\ wpc' = "returned"
    /\ UNCHANGED <<avars, upClosed, downClosed, closeIdx, ppc, held, perr, c,
                   tRead, tWritten, failOrder, waitRet, peerClosed>>

\* The far side of transport t goes away.
PeerClose(t) ==
    /\ ~Gone(t)
    /\ peerClosed' = peerClosed \cup {t}
    /\ UNCHANGED <<avars, upClosed, downClosed, wpc, closeIdx, ppc, held, perr,
                   c, tRead, tWritten, failOrder, waitRet>>

WaitNext ==
    \/ WaitStart
    \/ \E i \in Pipes : PipeReadPacket(i)
    \/ \E i \in Pipes : PipeReadFail(i)
    \/ \E i \in Pipes : PipeReadClosed(i)
    \/ \E i \in Pipes : PipeWritePacket(i)
    \/ \E i \in Pipes : PipeWriteFail(i)
    \/ \E i \in Pipes : PipeWriteClosed(i)
    \/ \E i \in Pipes : PipeSend(i)
    \/ WaitRecv
    \/ CloseTransport
    \/ WaitReturn
    \/ \E t \in Transports : PeerClose(t)

WaitSpec == WaitInit /\ [][WaitNext]_vars

\* The scheduler runs every goroutine that can take a step: Wait itself, a
\* send on c, and a read or write on a transport that is gone.  A write on
\* a transport that is open is taken to complete or fail (without that, a
\* pipe stuck in a write never comes to read from a transport whose peer
\* has gone).  A read on an open transport may wait for ever.
WaitFairSpec ==
    /\ WaitSpec
    /\ WF_vars(WaitStart)
    /\ WF_vars(WaitRecv)
    /\ WF_vars(CloseTransport)
    /\ WF_vars(WaitReturn)
    /\ \A i \in Pipes :
          /\ WF_vars(PipeSend(i))
          /\ WF_vars(PipeReadClosed(i))
          /\ WF_vars(PipeWritePacket(i) \/ PipeWriteFail(i) \/ PipeWriteClosed(i))

\* ------------------------------------------------------------------------
\* Vocabulary of the properties
\* ------------------------------------------------------------------------

\* handleAuthMsg has run on the request of this iteration.
Handled ==
    \/ pc \in {"bridge", "relay", "next", "done", "panic"}
    \/ pc = "error" /\ errAt \in {"bridge", "relay", "next"}

\* The bridge step of this iteration has written its request upstream.
Bridged ==
    \/ pc \in {"relay", "done"}
    \/ pc = "next" /\ userAuthMsg # <<>>
    \/ pc = "error" /\ errAt \in {"bridge", "relay"}
    \/ pc = "error" /\ errAt = "next" /\ userAuthMsg # <<>>

\* The bridge is waiting for (or has just failed to get) the next request.
AwaitingNext == pc = "next" \/ (pc = "error" /\ errAt = "next")

Last(log) == log[Len(log)]

\* Equality of two packets, decided on the message number first.
PktEq(a, b) == a[1] = b[1] /\ Len(a) = Len(b) /\ a = b

LogEq(a, b) ==
    /\ Len(a) = Len(b)
    /\ \A i \in DOMAIN a : PktEq(a[i], b[i])

\* r is a publickey request with has_sig set, an accepted algorithm, a key
\* blob that parses, one signature and nothing after it.
WellFormedSigned(r) ==
    /\ r.Method = "publickey"
    /\ Len(r.Payload) = 4
    /\ r.Payload[1] # 0
    /\ r.Payload[2] \in AcceptableAlgos
    /\ r.Payload[3][1] \in KnownKeyTypes

\* r is a publickey request with has_sig clear, an accepted algorithm and a
\* key blob that parses.
WellFormedQuery(r) ==
    /\ r.Method = "publickey"
    /\ Len(r.Payload) = 3
    /\ r.Payload[1] = 0
    /\ r.Payload[2] \in AcceptableAlgos
    /\ r.Payload[3][1] \in KnownKeyTypes

\* The authorized keys of user u as the configuration in force yields them.
KeysOf(u) ==
    IF proxyConf.FetchAuthorizedKeysHook = "hook"
    THEN AuthorizedKeysHookAnswer(u)
    ELSE ReadFile(<<"home", u, ".ssh", "authorized_keys">>)

\* blob is an entry of keys, with only well-formed entries before it.
Listed(keys, blob) ==
    \E j \in DOMAIN keys :
        /\ keys[j] = blob
        /\ \A k \in 1..(j - 1) : keys[k][1] \in KnownKeyTypes

\* The key of the signed request r is authorized for the user r names.
KeyAuthorized(r) ==
    /\ ~KeysOf(r.User).err
    /\ Listed(KeysOf(r.User).bytes, r.Payload[3])

\* The signature of the signed request r is one made by the key of r over
\* the data of r bound to session ID sid.
SignatureOver(r, sid) ==
    LET sg == r.Payload[4]
        blob == r.Payload[3]
    IN  /\ sg.Format = blob[1]
        /\ sg.Blob.signer = blob[2]
        /\ sg.Blob.data = <<sid, msgUserAuthRequest, r.User, r.Service,
                            "publickey", 1, blob[1], blob>>

IsPublicKeyRequest(packet) ==
    /\ packet[1] = msgUserAuthRequest
    /\ Len(packet) >= 4
    /\ packet[4] = "publickey"

\* ------------------------------------------------------------------------
\* Properties
\* ------------------------------------------------------------------------

\* C1 (authorization gating): a user-auth request with method "publickey" is
\* among the packets written upstream only if the downstream request being
\* handled is a signed publickey request whose key is listed in the
\* authorized keys fetched for the user that request names and whose
\* signature verifies over the downstream session ID.
C1_AuthorizationGating ==
    \A i \in DOMAIN upWritten :
        IsPublicKeyRequest(upWritten[i]) =>
            /\ WellFormedSigned(curReq[1])
            /\ att.keysUser = curReq[1].User
            /\ KeyAuthorized(curReq[1])
            /\ SignatureOver(curReq[1], SidDown)

\* C1 witness: a re-signed publickey request has been written upstream.
C1_Witness ==
    /\ pc = "relay"
    /\ Len(upWritten) = 1
    /\ IsPublicKeyRequest(upWritten[1])

\* C2 (no forwarding before upstream success): AuthenticateProxyConn has
\* returned nil only if the last packet read from upstream is
\* USERAUTH_SUCCESS and it is the last packet written downstream; and inside
\* the loop at most one packet per iteration goes upstream, always a
\* user-auth request naming the user of the downstream request, and never
\* the packet read from downstream when that is not a user-auth request.
C2_NoForwardBeforeSuccess ==
    /\ (ret = "nil" \/ pc = "done") =>
          /\ ret = "nil" /\ pc = "done"
          /\ Len(upRead) > 0 /\ Len(downWritten) > 0
          /\ Last(upRead)[1] = msgUserAuthSuccess
          /\ PktEq(Last(downWritten), Last(upRead))
    /\ (pc # "start" /\ errAt # "start") =>
          /\ Len(upWritten) <= 1
          /\ \A i \in DOMAIN upWritten :
                /\ upWritten[i][1] = msgUserAuthRequest
                /\ upWritten[i][2] = curReq[1].User
    /\ (pc = "start" \/ errAt = "start") =>
          \A i \in DOMAIN upWritten : upWritten[i] = ServiceRequestPacket

\* C2 witness: authentication has succeeded.
C2_Witness == pc = "done" /\ ret = "nil"

\* C3 (distinct session binding): a downstream signature is accepted only
\* when it covers the data bound to the downstream session ID, so one made
\* over the upstream session ID is rejected; and the signature of every
\* re-signed request covers the data of that request bound to the upstream
\* session ID, never the downstream one.
C3_SessionBinding ==
    /\ att.verified =>
          /\ WellFormedSigned(curReq[1])
          /\ SignatureOver(curReq[1], SidDown)
    /\ (Handled /\ WellFormedSigned(curReq[1])
          /\ curReq[1].Payload[4].Blob.data[1] = SidUp) =>
          /\ ~att.verified
          /\ ~att.resigned
          /\ \A i \in DOMAIN upWritten : ~IsPublicKeyRequest(upWritten[i])
    /\ \A i \in DOMAIN upWritten :
          IsPublicKeyRequest(upWritten[i]) =>
             LET pkt == upWritten[i]
             IN  /\ Len(pkt) = 8
                 /\ pkt[8].Blob.data[1] = SidUp
                 /\ pkt[8].Blob.data[1] # SidDown
                 /\ pkt[8].Blob.signer = pkt[7][2]
                 /\ pkt[8].Blob.data = <<SidUp, msgUserAuthRequest, pkt[2],
                                         serviceSSH, "publickey", 1,
                                         pkt[6], pkt[7]>>

\* C3 witness: a downstream signature over the downstream session ID was
\* accepted and the re-signed request has gone upstream.
C3_Witness ==
    /\ att.verified
    /\ att.resigned
    /\ Len(upWritten) = 1
    /\ IsPublicKeyRequest(upWritten[1])

\* C4 (query short-circuit): once a well-formed publickey query has been
\* handled, exactly one packet has been written downstream, a
\* USERAUTH_PK_OK carrying the algorithm and the key blob of the request,
\* nothing has been written upstream, and the bridge is waiting for the next
\* downstream request.
C4_QueryShortCircuit ==
    (Handled /\ WellFormedQuery(curReq[1])) =>
        /\ AwaitingNext
        /\ upWritten = <<>>
        /\ Len(downWritten) = 1
        /\ PktEq(downWritten[1],
                 <<msgUserAuthPubKeyOk, curReq[1].Payload[2], curReq[1].Payload[3]>>)

\* C5 (passthrough fidelity): a downstream request whose method is not
\* "publickey" is handed to the bridge step unchanged, and the one packet
\* that step writes upstream is the marshaling of that request: it decodes
\* to the same user, service, method and payload.
C5_PassthroughFidelity ==
    (Handled /\ curReq[1].Method # "publickey") =>
        /\ pc = "bridge" \/ Bridged
        /\ userAuthMsg = curReq
        /\ pc = "bridge" => upWritten = <<>>
        /\ Bridged =>
              /\ Len(upWritten) = 1
              /\ upWritten[1] = <<msgUserAuthRequest, curReq[1].User,
                                  curReq[1].Service, curReq[1].Method>>
                                \o curReq[1].Payload
              /\ UnmarshalUserAuthRequest(upWritten[1]).msg = curReq[1]

\* C5 witness: a password request has been written upstream.
C5_Witness ==
    /\ pc = "relay"
    /\ curReq[1].Method = "password"
    /\ Len(upWritten) = 1

\* C6 (banner transparency): in a bridge step the packets written
\* downstream are the packets read from upstream, in the order read; while
\* the relay is still reading, everything read so far is a banner; and when
\* the step has ended, its last packet is the first one that is not a
\* banner.
C6_BannerTransparency ==
    Bridged =>
        /\ LogEq(downWritten, upRead)
        /\ pc = "relay" =>
              \A i \in DOMAIN upRead : upRead[i][1] = msgUserAuthBanner
        /\ (pc = "done" \/ AwaitingNext) =>
              /\ Len(upRead) >= 1
              /\ Last(upRead)[1] # msgUserAuthBanner
        /\ \A i \in 1..(Len(upRead) - 1) : upRead[i][1] = msgUserAuthBanner

\* C6 witness: two different banners and then a failure have been relayed.
C6_Witness ==
    /\ pc = "next"
    /\ Len(upRead) = 3
    /\ Len(downWritten) = 3
    /\ upRead[1] # upRead[2]
    /\ upRead[3][1] = msgUserAuthFailure

\* C7 (file-permission refusal): no home-directory authorized_keys or
\* private-key file that checkPermission refuses (a group/other permission
\* bit is set) is ever read.
C7_FilePermissionRefusal ==
    \A u \in Users : \A f \in {userAuthorizedKeysFile, userPrivateKeyFile} :
        checkPermission(f, u) => userSpecFile(u, f) \notin att.files

\* C8 (bad signature): once a signed publickey request whose key is
\* authorized but whose signature does not verify has been handled, exactly
\* one packet has been written downstream, a USERAUTH_FAILURE listing
\* "publickey" alone, nothing has been written upstream, and the bridge is
\* waiting for the next downstream request.
C8_BadSignature ==
    (Handled /\ WellFormedSigned(curReq[1]) /\ KeyAuthorized(curReq[1])
       /\ ~SignatureOver(curReq[1], SidDown)) =>
        /\ AwaitingNext
        /\ upWritten = <<>>
        /\ upRead = <<>>
        /\ Len(downWritten) = 1
        /\ PktEq(downWritten[1], <<msgUserAuthFailure, <<"publickey">>, FALSE>>)

\* C8 witness: an authorized key with a signature that did not verify.
C8_Witness ==
    /\ pc = "next"
    /\ att.registered
    /\ att.sigChecked
    /\ ~att.verified
    /\ Len(downWritten) = 1

\* The key of the signed request r is not authorized for the user r names:
\* the keys cannot be fetched, or do not list it, or are malformed before it.
Unauthorized(r) == WellFormedSigned(r) /\ ~KeyAuthorized(r)

\* C9 as claimed (AuthRejected is not fatal and never succeeds): whatever
\* upstream replies, an attempt with an unauthorized key does not end
\* AuthenticateProxyConn, and when the bridge waits for the next request a
\* USERAUTH_FAILURE has reached downstream.  (Transport failures aside.)
C9_AuthRejectedNeverEnds ==
    (Handled /\ Unauthorized(curReq[1]) /\ ret # "io") =>
        /\ pc \notin {"done", "panic"}
        /\ ret # "nil"
        /\ pc = "error" => errAt = "next"
        /\ AwaitingNext =>
              \E i \in DOMAIN downWritten : downWritten[i][1] = msgUserAuthFailure

\* C9 as amended: for an attempt with an unauthorized key the bridge checks
\* no signature and answers nothing itself; it writes one "none" request
\* for the request's user upstream and relays upstream's reply.  The
\* attempt ends AuthenticateProxyConn with success exactly when upstream
\* answers USERAUTH_SUCCESS and with an error only on a transport failure;
\* otherwise the bridge waits for the next request, and an upstream
\* USERAUTH_FAILURE has then reached downstream.
C9_UnauthorizedDefersToUpstream ==
    (Handled /\ Unauthorized(curReq[1])) =>
        /\ ~att.sigChecked
        /\ pc # "panic"
        /\ pc = "bridge" \/ Bridged
        /\ Bridged => upWritten = << <<msgUserAuthRequest, curReq[1].User,
                                       "ssh-connection", "none">> >>
        /\ LogEq(downWritten, upRead)
        /\ pc = "done" <=> (Len(upRead) > 0 /\ Last(upRead)[1] = msgUserAuthSuccess
                              /\ ~(pc = "error"))
        /\ (pc = "error" /\ errAt # "next") => ret = "io"
        /\ AwaitingNext =>
              /\ Len(upRead) > 0
              /\ Last(upRead)[1] \notin {msgUserAuthSuccess, msgUserAuthBanner}
              /\ Last(upRead)[1] = msgUserAuthFailure =>
                    Last(downWritten)[1] = msgUserAuthFailure

\* C9 witness: upstream accepted the "none" request sent for an
\* unauthorized key.
C9_Witness ==
    /\ pc = "done"
    /\ Unauthorized(curReq[1])

C13_KeyMaterialPriority ==
    att.privSource # "" =>
        /\ att.privSource \in {"master", "hook", "homedir"}
        /\ proxyConf.UseMasterKey =>
              /\ att.privSource = "master"
              /\ att.privErr = ~FileAt(proxyConf.MasterKeyPath).exists
              /\ att.privFiles = IF att.privErr THEN {}
                                 ELSE {proxyConf.MasterKeyPath}
              /\ ~att.privErr =>
                    att.privBytes = FileAt(proxyConf.MasterKeyPath).content
        /\ (~proxyConf.UseMasterKey /\ proxyConf.FetchPrivateKeyHook # "nil") =>
              /\ att.privSource = "hook"
              /\ att.privFiles = {}
              /\ att.privErr = (att.privUser \notin {"alice", "bob"})
              /\ ~att.privErr =>
                    att.privBytes = IF att.privUser = "alice" THEN <<KHook>>
                                    ELSE <<KBad>>
        /\ (~proxyConf.UseMasterKey /\ proxyConf.FetchPrivateKeyHook = "nil") =>
              /\ att.privSource = "homedir"
              /\ att.privErr =
                    ~FileAt(<<"home", att.privUser, ".ssh", "id_rsa">>).exists
              /\ att.privFiles = IF att.privErr THEN {}
                                 ELSE {<<"home", att.privUser, ".ssh", "id_rsa">>}
              /\ ~att.privErr =>
                    att.privBytes =
                        FileAt(<<"home", att.privUser, ".ssh", "id_rsa">>).content
        /\ att.privErr => att.privBytes = <<>>

\* C13 witness: the master key was read although a private-key hook is
\* configured.
C13_Witness ==
    /\ att.privSource = "master"
    /\ proxyConf.UseMasterKey
    /\ proxyConf.FetchPrivateKeyHook = "hook"
    /\ ~att.privErr

\* C14 (an unauthorized key gives up publickey): once a signed publickey
\* request whose authorized keys cannot be fetched, or do not list its key,
\* has been handled, the signature has not been checked, nothing has been
\* answered by the bridge itself, and the message handed to the bridge step
\* is a "none" request for the request's user and service "ssh-connection";
\* the bridge step writes exactly that one packet upstream, and what it
\* writes downstream is what upstream replied.
C14_UnauthorizedSendsNone ==
    (Handled /\ Unauthorized(curReq[1])) =>
        /\ ~att.sigChecked
        /\ ~att.verified
        /\ pc = "bridge" \/ Bridged
        /\ userAuthMsg = << [User |-> curReq[1].User, Service |-> "ssh-connection",
                             Method |-> "none", Payload |-> <<>>] >>
        /\ pc = "bridge" => upWritten = <<>> /\ downWritten = <<>>
        /\ Bridged =>
              /\ Len(upWritten) = 1
              /\ PktEq(upWritten[1], <<msgUserAuthRequest, curReq[1].User,
                                       "ssh-connection", "none">>)
              /\ LogEq(downWritten, upRead)

\* C14 witness: the "none" request sent for an unauthorized key of a
\* request for another service was answered with a failure, which has been
\* relayed.
C14_Witness ==
    /\ pc = "next"
    /\ Unauthorized(curReq[1])
    /\ curReq[1].Service # serviceSSH
    /\ Len(upWritten) = 1
    /\ Len(downWritten) = 1
    /\ downWritten[1][1] = msgUserAuthFailure

\* The bridge step of this iteration has ended without a transport error.
StepEnded ==
    \/ pc = "done"
    \/ AwaitingNext /\ userAuthMsg # <<>>

\* C15 as claimed (request/reply ordering): a bridge step ends only after
\* the final reply to its own request, USERAUTH_SUCCESS or
\* USERAUTH_FAILURE, has been read from upstream, so that no later request
\* is written upstream while that reply is outstanding.
C15_FinalReplyBeforeNextRequest ==
    /\ Len(upWritten) <= 1 \/ pc = "start" \/ errAt = "start"
    /\ StepEnded =>
          /\ Len(upRead) >= 1
          /\ Last(upRead)[1] \in {msgUserAuthSuccess, msgUserAuthFailure}

\* C15 as amended: in one iteration at most one request is written
\* upstream, and only when nothing has been read for it yet; while the
\* relay reads, everything read so far is a banner; and the bridge step
\* ends only after a packet that is not a banner has been read from
\* upstream in reply and written downstream: USERAUTH_SUCCESS exactly when
\* the step ends authentication, and otherwise USERAUTH_FAILURE or a packet
\* of any other type.
C15_ReplyBeforeNextRequest ==
    /\ Len(upWritten) <= 1 \/ pc = "start" \/ errAt = "start"
    /\ pc = "bridge" => upWritten = <<>> /\ upRead = <<>>
    /\ pc = "relay" =>
          /\ Len(upWritten) = 1
          /\ \A i \in DOMAIN upRead : upRead[i][1] = msgUserAuthBanner
    /\ StepEnded =>
          /\ Len(upWritten) = 1
          /\ Len(upRead) >= 1
          /\ Last(upRead)[1] # msgUserAuthBanner
          /\ PktEq(Last(downWritten), Last(upRead))
          /\ pc = "done" <=> Last(upRead)[1] = msgUserAuthSuccess

\* C15 witness: a bridge step has ended on a reply that is neither
\* USERAUTH_SUCCESS nor USERAUTH_FAILURE.
C15_Witness ==
    /\ pc = "next"
    /\ userAuthMsg # <<>>
    /\ Len(upRead) >= 1
    /\ Last(upRead)[1] = msgServiceAccept

\* C16 (a crypto error is an auth rejection): once a signed publickey
\* request whose signature verified but for which no re-signed request was
\* produced (the private key could not be fetched or parsed, or signAgain
\* failed) has been handled, one USERAUTH_FAILURE listing "publickey" has
\* been written downstream, nothing has been written upstream, and the
\* bridge is waiting for the next request: it has not crashed.
C16_CryptoErrorRejected ==
    (Handled /\ att.verified /\ ~att.resigned) =>
        /\ pc # "panic"
        /\ AwaitingNext
        /\ upWritten = <<>>
        /\ Len(downWritten) = 1
        /\ PktEq(downWritten[1], <<msgUserAuthFailure, <<"publickey">>, FALSE>>)

\* r is a publickey request whose payload is truncated, names an algorithm
\* that is not accepted, carries a key blob that does not parse, or has
\* has_sig set and not exactly one signature field after the key.
Malformed(r) ==
    /\ r.Method = "publickey"
    /\ \/ Len(r.Payload) < 3
       \/ r.Payload[2] \notin AcceptableAlgos
       \/ r.Payload[3][1] \notin KnownKeyTypes
       \/ r.Payload[1] # 0 /\ Len(r.Payload) # 4

\* C17 (a protocol error is fatal): once a malformed publickey request has
\* been handled, AuthenticateProxyConn has returned an error; the bridge is
\* not waiting for a further downstream request.
C17_ProtocolErrorFatal ==
    (Handled /\ Malformed(curReq[1])) =>
        /\ pc = "error"
        /\ ret \notin {"", "nil"}
        /\ errAt = "handle"

\* C18 (an I/O error is fatal): whenever a transport read or write has
\* failed, a write of the bridge's own USERAUTH_PK_OK or USERAUTH_FAILURE
\* included, AuthenticateProxyConn has returned an error and is at no
\* position from which it reads or writes again.
C18_IOErrorFatal ==
    err => /\ pc = "error"
           /\ ret \notin {"", "nil"}

\* C20 (user consistency of re-signing): whenever a re-signed request has
\* been produced, the authorized keys were checked for, the private key was
\* fetched for (when it is a user's key and not the master key), and the
\* re-signed request and its signed data name one and the same user.
C20_UserConsistency ==
    att.resigned =>
        /\ att.keysUser = curReq[1].User
        /\ att.privSource # "master" => att.privUser = att.keysUser
        /\ userAuthMsg # <<>>
        /\ userAuthMsg[1].User = att.keysUser
        /\ userAuthMsg[1].Payload[4].Blob.data[3] = att.keysUser

\* a is an initial part of b.
IsPrefix(a, b) ==
    /\ Len(a) <= Len(b)
    /\ \A k \in DOMAIN a : a[k] = b[k]

\* C11 (forwarder order and opacity): during Wait, in each direction the
\* packets written to the destination transport are, in order and
\* unchanged, an initial part of the packets read from the source
\* transport, and at most the packet read last has not been written yet.
C11_ForwarderOrder ==
    /\ IsPrefix(tWritten["up"], tRead["down"])
    /\ Len(tRead["down"]) <= Len(tWritten["up"]) + 1
    /\ IsPrefix(tWritten["down"], tRead["up"])
    /\ Len(tRead["up"]) <= Len(tWritten["down"]) + 1

\* C11 witness: two different packets have gone from downstream to
\* upstream while packets went the other way as well.
C11_Witness ==
    /\ Len(tWritten["up"]) = 2
    /\ tWritten["up"][1] # tWritten["up"][2]
    /\ Len(tWritten["down"]) = 2
    /\ tWritten["down"][1] # tWritten["down"][2]
    /\ tWritten["down"][1] # tWritten["up"][1]

\* C12 as claimed (forwarder exit): when Wait has returned, what it returns
\* is the error of the pipe that failed first, and both transports have
\* been closed.
C12_FirstFailureReturned ==
    wpc = "returned" =>
        /\ waitRet # <<>>
        /\ waitRet[1].pipe = failOrder[1]
        /\ upClosed
        /\ downClosed

\* C12 as amended: what Wait returns is the error of a pipe that failed on
\* its own account before Wait began to close the transports, never a
\* failure that Wait's own Close brought about; no transport is closed
\* before Wait has received that error; and when Wait has returned both
\* transports have been closed.
C12_EarlyFailureReturned ==
    /\ wpc \in {"call", "recv"} =>
          /\ waitRet = <<>>
          /\ ~upClosed
          /\ ~downClosed
    /\ wpc \in {"close", "returned"} =>
          /\ waitRet # <<>>
          /\ \E k \in DOMAIN failOrder : failOrder[k] = waitRet[1].pipe
          /\ waitRet[1].err = perr[waitRet[1].pipe]
          /\ waitRet[1].err \in {"read", "write", "gone"}
    /\ wpc = "returned" =>
          /\ upClosed
          /\ downClosed

\* C12 witness: both pipes failed on their own account and Wait returned
\* the error of the one that failed second.
C12_Witness ==
    /\ wpc = "returned"
    /\ Len(failOrder) = 2
    /\ waitRet[1].pipe = failOrder[2]

\* A transport has been closed or has gone away, or a pipe's read or write
\* has failed.
Cancelled ==
    \/ upClosed
    \/ downClosed
    \/ peerClosed # {}
    \/ \E i \in Pipes : perr[i] # ""

\* Wait has returned, both transports are closed and both goroutines have
\* sent their result and ended.
WaitFinished ==
    /\ wpc = "returned"
    /\ upClosed
    /\ downClosed
    /\ \A i \in Pipes : ppc[i] = "done"

====
